---- MODULE Spec2Model ----
(***************************************************************************)
(* Model of the profile-to-manifest renderer (generate.py) and of the      *)
(* deployment orchestrator (deploy.py).                                    *)
(*                                                                         *)
(* Text is modelled as a sequence of tokens.  A token is a chunk of        *)
(* characters that is never split: the literal chunks of a template are    *)
(* tokens, and a value taken from the profile (a name, a distro, ...) is a *)
(* sequence of tokens spliced between them.  The bytes of a file are the   *)
(* concatenation of its tokens.  Value tokens are taken from alphabets     *)
(* that share no character run with the template literals, so reading a    *)
(* file back by its literal markers is what a YAML reader would see.       *)
(***************************************************************************)
EXTENDS Integers, Sequences, FiniteSets, TLC

VARIABLES
    profileFile,  \* state of the profile file: "missing", "malformed", "ok"
    profile,      \* the document yaml.safe_load returns when the file is ok
    fs,           \* the seven artifacts: path -> [exists, data]
    dirs,         \* the output directories that exist
    gpc,          \* position of generate.py main
    out,          \* the "[OK] ..." lines the running generator has printed
    fs0,          \* fs when the current generator run started
    dirs0,        \* dirs when the current generator run started
    runs,         \* generator runs started so far
    lastExit,     \* how the previous generator run ended
    iofaults,     \* filesystem failures injected so far
    dpc,          \* position of deploy.py main
    username,     \* the Docker Hub username, after strip()
    answer,       \* the raw text typed at the confirmation prompt
    info,         \* what update_values_yaml returned
    steps,        \* the orchestrator steps started so far, in order
    failed        \* the orchestrator step that reported an error, or ""

genVars == <<profileFile, profile, fs, dirs, gpc, out, fs0, dirs0, runs,
             lastExit, iofaults>>
deployVars == <<dpc, username, answer, info, steps, failed>>
vars == <<profileFile, profile, fs, dirs, gpc, out, fs0, dirs0, runs,
          lastExit, iofaults, dpc, username, answer, info, steps, failed>>

----------------------------------------------------------------------------
(* Bounds *)

MaxRules == 3
MaxPkgs == 2
MaxRuns == 2
MaxIOFaults == 1
MaxAnswerLen == 2
MaxTornBytes == 10

----------------------------------------------------------------------------
(* Sequences of tokens *)

SeqUpTo(S, n) == UNION {[1..k -> S] : k \in 0..n}

RECURSIVE Join(_, _)
\* sep.join(items)
Join(items, sep) ==
    IF items = <<>> THEN <<>>
    ELSE IF Len(items) = 1 THEN <<items[1]>>
    ELSE <<items[1], sep>> \o Join(Tail(items), sep)

Range(s) == {s[i] : i \in 1..Len(s)}

IsPrefix(s, t) == Len(s) <= Len(t) /\ SubSeq(t, 1, Len(s)) = s

\* index of the first occurrence of token in s, 0 when there is none
IndexOf(s, token) ==
    IF token \in Range(s)
    THEN CHOOSE i \in 1..Len(s) : s[i] = token /\ \A j \in 1..(i-1) : s[j] # token
    ELSE 0

\* the tokens strictly between the first occurrence of a and the first of b
Between(s, a, b) == SubSeq(s, IndexOf(s, a) + 1, IndexOf(s, b) - 1)

----------------------------------------------------------------------------
(* The profile document *)

KeyPaths == {"profile.name", "profile.version", "os.distro", "os.version",
             "packages", "network"}
NetKeys == {"rules", "default_deny_ingress", "default_deny_egress"}

\* the value of a rule's "from" / "to" key
NullPeer == [shape |-> "null", has_ns |-> FALSE, namespace |-> <<>>]
EmptyPeer == [shape |-> "map", has_ns |-> FALSE, namespace |-> <<>>]
Peer(ns) == [shape |-> "map", has_ns |-> TRUE, namespace |-> <<ns>>]

MkRule(keys, dir, from, to, proto, port) ==
    [keys |-> keys, direction |-> dir, from |-> from, to |-> to,
     protocol |-> proto, port |-> port]

IngressRule(ns, proto, port) ==
    MkRule({"direction", "from", "protocol", "port"}, "ingress", Peer(ns),
           EmptyPeer, proto, port)
EgressRule(ns, proto, port) ==
    MkRule({"direction", "to", "protocol", "port"}, "egress", EmptyPeer,
           Peer(ns), proto, port)

\* rules whose processing cannot raise
GoodRules ==
    { IngressRule("monitoring", "TCP", 9090),
      IngressRule("frontend", "UDP", 53),
      EgressRule("database", "TCP", 5432),
      \* egress rule without the "to" key
      MkRule({"direction", "protocol", "port"}, "egress", EmptyPeer, EmptyPeer,
             "TCP", 443),
      \* ingress rule with "from: {}"
      MkRule({"direction", "from", "protocol", "port"}, "ingress", EmptyPeer,
             EmptyPeer, "TCP", 80),
      \* a direction that is neither "ingress" nor "egress"
      MkRule({"direction", "from", "protocol", "port"}, "Ingress",
             Peer("monitoring"), EmptyPeer, "TCP", 22) }

\* rules whose processing raises
BadRules ==
    { \* "from:" with no value: yaml.safe_load gives None
      MkRule({"direction", "from", "protocol", "port"}, "ingress", NullPeer,
             EmptyPeer, "TCP", 8080),
      \* no "protocol" key
      MkRule({"direction", "to", "port"}, "egress", EmptyPeer,
             Peer("database"), "", 53) }

RuleSet == GoodRules \cup BadRules

Network(keys, rules, di, de) ==
    [keys |-> keys, rules |-> rules, default_deny_ingress |-> di,
     default_deny_egress |-> de]

MkProfile(paths, name, prof_ver, distro, os_version, packages, network) ==
    [paths |-> paths, name |-> name, prof_ver |-> prof_ver, distro |-> distro,
     os_version |-> os_version, packages |-> packages, network |-> network]

PLACEHOLDER == "YOUR_DOCKERHUB_USERNAME"

SampleRules == <<IngressRule("monitoring", "TCP", 9090),
                 EgressRule("database", "TCP", 5432)>>

BaseProfile ==
    MkProfile(KeyPaths, <<"worker">>, <<"1">>, <<"ubuntu">>, <<"22.04">>,
              <<"curl">>, Network(NetKeys, SampleRules, TRUE, FALSE))

\* profiles that differ in the network section only
NetProfiles ==
    { [BaseProfile EXCEPT !.network = Network(NetKeys, rs, di, de)] :
        rs \in SeqUpTo(RuleSet, MaxRules), di \in BOOLEAN, de \in BOOLEAN }
      \cup
    { [BaseProfile EXCEPT !.network = Network(ks, SampleRules, TRUE, TRUE)] :
        ks \in SUBSET NetKeys }

\* profiles with one required field absent
KeyProfiles ==
    { [BaseProfile EXCEPT !.paths = KeyPaths \ {p}] : p \in KeyPaths }

\* profiles with a rule that raises
RaisingProfiles ==
    { [BaseProfile EXCEPT !.network = Network(NetKeys, <<r>>, TRUE, TRUE)] :
        r \in BadRules }

----------------------------------------------------------------------------
(* generate.py: the artifacts *)

DOCKERFILE == "generated/Dockerfile"
CHART == "generated/helm/Chart.yaml"
VALUES == "generated/helm/values.yaml"
NAMESPACE == "generated/helm/templates/namespace.yaml"
DEPLOYMENT == "generated/helm/templates/deployment.yaml"
SERVICE == "generated/helm/templates/service.yaml"
NETWORKPOLICY == "generated/helm/templates/networkpolicy.yaml"

\* the order in which main writes the artifacts
WriteOrder == <<DOCKERFILE, CHART, VALUES, NAMESPACE, DEPLOYMENT, SERVICE,
                NETWORKPOLICY>>
Artifacts == Range(WriteOrder)

\* the directories os.makedirs makes, outermost first
GeneratedDir == <<"generated">>
ChartDirs == <<"generated", "generated/helm", "generated/helm/templates">>

NoFile == [exists |-> FALSE, data |-> <<>>]
File(data) == [exists |-> TRUE, data |-> data]

\* a slip: the OS version where the profile version belongs
image_tag_os_version(p) == p.distro \o <<"-">> \o p.name \o <<"-v">> \o p.os_version

\* image_tag = f"{distro}-{name}-v{prof_ver}"
image_tag(p) == p.distro \o <<"-">> \o p.name \o <<"-v">> \o p.prof_ver

DockerfileText(p) ==
    <<"FROM ">> \o p.distro \o <<":">> \o p.os_version
    \o <<"\n\nRUN apt-get update && \\\n    apt-get install -y ">>
    \o Join(p.packages, " ")
    \o <<" && \\\n    rm -rf /var/lib/apt/lists/*\n\nCMD [\"/bin/sh\", \"-c\", \"while true; do sleep 3600; done\"]\n">>

ChartHead == "apiVersion: v2\nname: "
ChartDesc == "\ndescription: Auto-generated chart for profile "
ChartVersion == "\ntype: application\nversion: \""
ChartAppVersion == "\"\nappVersion: \""
ChartTail == "\"\n"

ChartText(p) ==
    <<ChartHead>> \o p.name \o <<ChartDesc>> \o p.name
    \o <<ChartVersion>> \o p.prof_ver \o <<ChartAppVersion>> \o p.prof_ver
    \o <<ChartTail>>

ValuesHead == "replicaCount: 1\n\nimage:\n  repository: "
ValuesTag == "\n  tag: \""
ValuesNamespace == "\"\n  pullPolicy: IfNotPresent\n\nnamespace: "
ValuesApp == "\n\nservice:\n  type: ClusterIP\n  port: 80\n\napp:\n  name: "
ValuesTail == "\n"

ValuesText(p) ==
    <<ValuesHead, PLACEHOLDER, "/">> \o p.name
    \o <<ValuesTag>> \o image_tag(p)
    \o <<ValuesNamespace>> \o p.name
    \o <<ValuesApp>> \o p.name \o <<ValuesTail>>

NamespaceText(p) ==
    <<"apiVersion: v1\nkind: Namespace\nmetadata:\n  name: ">> \o p.name \o <<"\n">>

DeploymentText ==
    <<"apiVersion: apps/v1\nkind: Deployment\nmetadata:\n  name: {{ .Values.app.name }}\n  namespace: {{ .Values.namespace }}\n  labels:\n    app: {{ .Values.app.name }}\nspec:\n  replicas: {{ .Values.replicaCount }}\n  selector:\n    matchLabels:\n      app: {{ .Values.app.name }}\n  template:\n    metadata:\n      labels:\n        app: {{ .Values.app.name }}\n    spec:\n      containers:\n        - name: {{ .Values.app.name }}\n          image: \"{{ .Values.image.repository }}:{{ .Values.image.tag }}\"\n          imagePullPolicy: {{ .Values.image.pullPolicy }}\n          ports:\n            - containerPort: 80\n          command: [\"/bin/sh\", \"-c\", \"while true; do sleep 3600; done\"]\n">>

ServiceText ==
    <<"apiVersion: v1\nkind: Service\nmetadata:\n  name: {{ .Values.app.name }}-svc\n  namespace: {{ .Values.namespace }}\nspec:\n  selector:\n    app: {{ .Values.app.name }}\n  ports:\n    - protocol: TCP\n      port: {{ .Values.service.port }}\n      targetPort: 80\n  type: {{ .Values.service.type }}\n">>

----------------------------------------------------------------------------
(* generate.py: generate_network_policies *)

NPHead == "# Policy 1: Default Deny\napiVersion: networking.k8s.io/v1\nkind: NetworkPolicy\nmetadata:\n  name: default-deny\n  namespace: {{ .Values.namespace }}\nspec:\n  podSelector: {}\n  policyTypes:\n"
NPAllow == "\n---\n# Policy 2: Allow exceptions\napiVersion: networking.k8s.io/v1\nkind: NetworkPolicy\nmetadata:\n  name: {{ .Values.app.name }}-allow\n  namespace: {{ .Values.namespace }}\nspec:\n  podSelector:\n    matchLabels:\n      app: {{ .Values.app.name }}\n  policyTypes:\n"

IngressKey == "  ingress:\n"
IngressEmpty == "  ingress: []\n"
EgressKey == "  egress:\n"
EgressEmpty == "  egress: []\n"
FromEntry == "  - from:\n    - namespaceSelector:\n        matchLabels:\n          kubernetes.io/metadata.name: "
ToEntry == "  - to:\n    - namespaceSelector:\n        matchLabels:\n          kubernetes.io/metadata.name: "
EntryProtocol == "\n    ports:\n    - protocol: "
EntryPort == "\n      port: "

\* network.get("rules", [])
GetRules(network) == IF "rules" \in network.keys THEN network.rules ELSE <<>>

\* network.get(flag), tested for truth: an absent key gives None
GetFlag(network, flag) == flag \in network.keys /\ network[flag]

Reverse(s) == [i \in 1..Len(s) |-> s[Len(s) + 1 - i]]

\* a slip: the ingress rules collected in reverse
ingress_rules_reversed(rules) ==
    Reverse(SelectSeq(rules, LAMBDA r : r.direction = "ingress"))

\* [r for r in rules if r["direction"] == "ingress"]
ingress_rules(rules) == SelectSeq(rules, LAMBDA r : r.direction = "ingress")

\* [r for r in rules if r["direction"] == "egress"]
egress_rules(rules) == SelectSeq(rules, LAMBDA r : r.direction = "egress")

\* rule.get(key, {}).get("namespace", "") raises AttributeError on None
PeerRaises(rule, key) == key \in rule.keys /\ rule[key].shape = "null"

\* rule.get(key, {}).get("namespace", "")
PeerNamespace(rule, key) ==
    IF key \in rule.keys /\ rule[key].has_ns THEN rule[key].namespace ELSE <<>>

\* the f-string of one allow entry: rule["protocol"] and rule["port"] raise
\* KeyError when absent
EntryRaises(rule, key) ==
    PeerRaises(rule, key) \/ "protocol" \notin rule.keys \/ "port" \notin rule.keys

AllowEntry(rule, opener, key) ==
    <<opener>> \o PeerNamespace(rule, key)
    \o <<EntryProtocol, rule.protocol, EntryPort, ToString(rule.port), "\n">>

RECURSIVE Entries(_, _, _)
Entries(rs, opener, key) ==
    IF rs = <<>> THEN <<>>
    ELSE AllowEntry(Head(rs), opener, key) \o Entries(Tail(rs), opener, key)

\* a slip: no key at all for a direction without rules
ingress_block_omitted(rs) ==
    IF rs # <<>> THEN <<IngressKey>> \o Entries(rs, FromEntry, "from")
    ELSE <<>>

ingress_block(rs) ==
    IF rs # <<>> THEN <<IngressKey>> \o Entries(rs, FromEntry, "from")
    ELSE <<IngressEmpty>>

egress_block(rs) ==
    IF rs # <<>> THEN <<EgressKey>> \o Entries(rs, ToEntry, "to")
    ELSE <<EgressEmpty>>

\* a slip: each policy type taken from the other direction's flag
policy_types_swapped(network) ==
    (IF GetFlag(network, "default_deny_egress") THEN <<"Ingress">> ELSE <<>>)
    \o (IF GetFlag(network, "default_deny_ingress") THEN <<"Egress">> ELSE <<>>)

policy_types(network) ==
    (IF GetFlag(network, "default_deny_ingress") THEN <<"Ingress">> ELSE <<>>)
    \o (IF GetFlag(network, "default_deny_egress") THEN <<"Egress">> ELSE <<>>)

TypeLine(pt) == IF pt = "Ingress" THEN "  - Ingress" ELSE "  - Egress"

\* "\n".join([f"  - {pt}" for pt in policy_types])
policy_types_str(pts) == Join([i \in 1..Len(pts) |-> TypeLine(pts[i])], "\n")

\* the exceptions generate_network_policies raises before it opens the file
NetworkRaises(p) ==
    \/ "network" \notin p.paths
    \/ LET rules == GetRules(p.network) IN
        \/ \E i \in 1..Len(rules) : "direction" \notin rules[i].keys
        \/ \E i \in 1..Len(rules) :
              \/ rules[i].direction = "ingress" /\ EntryRaises(rules[i], "from")
              \/ rules[i].direction = "egress" /\ EntryRaises(rules[i], "to")

NetworkPolicyText(p) ==
    LET rules == GetRules(p.network)
        pts == policy_types_str(policy_types(p.network))
    IN <<NPHead>> \o pts \o <<NPAllow>> \o pts \o <<"\n">>
       \o ingress_block(ingress_rules(rules)) \o egress_block(egress_rules(rules))

----------------------------------------------------------------------------
(* Reading the generated documents back *)

TypeLines == {"  - Ingress", "  - Egress"}
TypeName(line) == IF line = "  - Ingress" THEN "Ingress" ELSE "Egress"

\* the items of a policyTypes list
ReadTypes(tokens) ==
    LET ls == SelectSeq(tokens, LAMBDA t : t \in TypeLines)
    IN [i \in 1..Len(ls) |-> TypeName(ls[i])]

Unreadable == [namespace |-> <<"?">>, protocol |-> "?", port |-> "?"]

RECURSIVE ReadEntries(_, _)
\* the allow entries of one direction
ReadEntries(t, opener) ==
    IF t = <<>> THEN <<>>
    ELSE LET i == IndexOf(t, EntryProtocol) IN
         IF t[1] # opener \/ i = 0 \/ Len(t) < i + 4 THEN <<Unreadable>>
         ELSE <<[namespace |-> SubSeq(t, 2, i - 1), protocol |-> t[i + 1],
                 port |-> t[i + 3]]>>
              \o ReadEntries(SubSeq(t, i + 5, Len(t)), opener)

FirstOf(s, toks) ==
    IF \E i \in 1..Len(s) : s[i] \in toks
    THEN CHOOSE i \in 1..Len(s) : s[i] \in toks /\ \A j \in 1..(i-1) : s[j] \notin toks
    ELSE 0

\* the two NetworkPolicy documents of networkpolicy.yaml
ReadPolicies(c) ==
    LET sep == IndexOf(c, NPAllow)
        allow == SubSeq(c, sep + 1, Len(c))
        ki == FirstOf(allow, {IngressKey, IngressEmpty})
        ke == FirstOf(allow, {EgressKey, EgressEmpty})
        typesEnd == IF ki # 0 THEN ki - 1 ELSE IF ke # 0 THEN ke - 1 ELSE Len(allow)
    IN [ deny_types |-> ReadTypes(SubSeq(c, 1, sep - 1)),
         allow_types |-> ReadTypes(SubSeq(allow, 1, typesEnd)),
         has_ingress |-> ki # 0,
         has_egress |-> ke # 0,
         ingress |-> IF ki = 0 THEN <<>>
                     ELSE ReadEntries(SubSeq(allow, ki + 1,
                              IF ke > ki THEN ke - 1 ELSE Len(allow)), FromEntry),
         egress |-> IF ke = 0 THEN <<>>
                    ELSE ReadEntries(SubSeq(allow, ke + 1, Len(allow)), ToEntry) ]

\* the values document, as yaml.safe_load reads it
ReadValues(c) ==
    [ repository |-> Between(c, ValuesHead, ValuesTag),
      tag |-> Between(c, ValuesTag, ValuesNamespace),
      namespace |-> Between(c, ValuesNamespace, ValuesApp),
      app_name |-> SubSeq(c, IndexOf(c, ValuesApp) + 1, Len(c) - 1),
      fixed |-> SelectSeq(c, LAMBDA t :
                   t \in {ValuesHead, ValuesTag, ValuesNamespace, ValuesApp}) ]

\* the chart descriptor
ReadChart(c) ==
    [ name |-> Between(c, ChartHead, ChartDesc),
      version |-> Between(c, ChartVersion, ChartAppVersion),
      appVersion |-> Between(c, ChartAppVersion, ChartTail) ]

----------------------------------------------------------------------------
(* generate.py: the run *)

RECURSIVE Size(_)
\* the number of bytes of a text
Size(text) == IF text = <<>> THEN 0 ELSE Len(Head(text)) + Size(Tail(text))

RECURSIVE TakeBytes(_, _)
\* the first n bytes of a text: whole tokens, then the cut one
TakeBytes(text, n) ==
    IF n = 0 \/ text = <<>> THEN <<>>
    ELSE IF Len(Head(text)) <= n
         THEN <<Head(text)>> \o TakeBytes(Tail(text), n - Len(Head(text)))
         ELSE <<SubSeq(Head(text), 1, n)>>

\* what the filesystem does to one step; n is the number of bytes that
\* reached the file before the write failed, or the position in mk of the
\* os.mkdir that failed
IO(kind, n) == [kind |-> kind, n |-> n]
OkIO == IO("ok", 0)

\* a slip: the file opened in append mode
WriteFileAppend(f, path, content, io) ==
    CASE io.kind = "ok" -> [f EXCEPT ![path] = File(f[path].data \o content)]
      [] io.kind = "write_error" ->
            [f EXCEPT ![path] = File(f[path].data \o TakeBytes(content, io.n))]
      [] OTHER -> f

\* with open(path, "w") as f: f.write(content)
\* the open fails (nothing changes), the write fails after the open
\* truncated the file and io.n bytes reached it, or both succeed
WriteFile(f, path, content, io) ==
    CASE io.kind = "ok" -> [f EXCEPT ![path] = File(content)]
      [] io.kind = "write_error" -> [f EXCEPT ![path] = File(TakeBytes(content, io.n))]
      [] OTHER -> f

\* a slip: the exception swallowed, the run goes on
OnExceptionSwallowed(next) == next

\* generate.py catches nothing: an exception ends the run
OnException(next) == "aborted"

Min(a, b) == IF a <= b THEN a ELSE b

\* os.makedirs(exist_ok=True) makes the missing directories of mk one by one,
\* outermost first: the mkdir that fails leaves the earlier ones made
MakeDirs(ds, mk, io) ==
    IF io.kind = "mkdir_error" THEN ds \cup {mk[i] : i \in 1..(io.n - 1)}
    ELSE ds \cup Range(mk)

IOOutcomes(ds, mk, content) ==
    {OkIO, IO("open_error", 0)}
    \cup {IO("write_error", n) : n \in 0..Min(Size(content) - 1, MaxTornBytes)}
    \cup {IO("mkdir_error", i) : i \in {i \in 1..Len(mk) : mk[i] \notin ds}}

\* os.makedirs(mk, exist_ok=True) when mk is not empty, the write of one
\* artifact, and the "[OK]" line that follows it
Emit(path, content, mk, next) ==
    \E io \in IOOutcomes(dirs, mk, content) :
        /\ io.kind # "ok" => iofaults < MaxIOFaults
        /\ iofaults' = IF io.kind = "ok" THEN iofaults ELSE iofaults + 1
        /\ dirs' = MakeDirs(dirs, mk, io)
        /\ fs' = WriteFile(fs, path, content, io)
        /\ out' = IF io.kind = "ok" THEN Append(out, path) ELSE out
        /\ gpc' = IF io.kind = "ok" THEN next ELSE OnException(next)

\* a KeyError, AttributeError or the failure of load_profile: nothing written
Abort(next) ==
    /\ gpc' = OnException(next)
    /\ UNCHANGED <<fs, dirs, out, iofaults>>

\* python generate.py [profile.yaml], from the command line
main ==
    /\ dpc = "idle"
    /\ gpc \in {"idle", "done", "aborted"}
    /\ runs < MaxRuns
    /\ gpc' = "load"
    /\ runs' = runs + 1
    /\ lastExit' = gpc
    /\ fs0' = fs
    /\ dirs0' = dirs
    /\ out' = <<>>
    /\ UNCHANGED <<profileFile, profile, fs, dirs, iofaults>>
    /\ UNCHANGED deployVars

\* a slip: the output directory made before the profile is read
load_profile_after_makedirs ==
    /\ gpc = "load"
    /\ dirs' = dirs \cup Range(GeneratedDir)
    /\ gpc' = IF profileFile = "ok" THEN "dockerfile" ELSE OnException("dockerfile")
    /\ UNCHANGED <<fs, out, iofaults>>
    /\ UNCHANGED <<profileFile, profile, fs0, dirs0, runs, lastExit>>
    /\ UNCHANGED deployVars

load_profile ==
    /\ gpc = "load"
    /\ \/ /\ profileFile = "ok"
          /\ gpc' = "dockerfile"
          /\ UNCHANGED <<fs, dirs, out, iofaults>>
       \/ /\ profileFile # "ok"
          /\ Abort("dockerfile")
    /\ UNCHANGED <<profileFile, profile, fs0, dirs0, runs, lastExit>>
    /\ UNCHANGED deployVars

generate_dockerfile ==
    /\ gpc = "dockerfile"
    /\ \/ /\ {"os.distro", "os.version", "packages"} \subseteq profile.paths
          /\ Emit(DOCKERFILE, DockerfileText(profile), GeneratedDir, "chart")
       \/ /\ ~ ({"os.distro", "os.version", "packages"} \subseteq profile.paths)
          /\ Abort("chart")
    /\ UNCHANGED <<profileFile, profile, fs0, dirs0, runs, lastExit>>
    /\ UNCHANGED deployVars

\* generate_helm up to the write of Chart.yaml
generate_helm_chart ==
    /\ gpc = "chart"
    /\ \/ /\ {"profile.name", "os.distro", "os.version", "profile.version"}
                \subseteq profile.paths
          /\ Emit(CHART, ChartText(profile), ChartDirs, "values")
       \/ /\ ~ ({"profile.name", "os.distro", "os.version", "profile.version"}
                \subseteq profile.paths)
          /\ Abort("values")
    /\ UNCHANGED <<profileFile, profile, fs0, dirs0, runs, lastExit>>
    /\ UNCHANGED deployVars

generate_helm_values ==
    /\ gpc = "values"
    /\ Emit(VALUES, ValuesText(profile), <<>>, "namespace")
    /\ UNCHANGED <<profileFile, profile, fs0, dirs0, runs, lastExit>>
    /\ UNCHANGED deployVars

generate_helm_namespace ==
    /\ gpc = "namespace"
    /\ Emit(NAMESPACE, NamespaceText(profile), <<>>, "deployment")
    /\ UNCHANGED <<profileFile, profile, fs0, dirs0, runs, lastExit>>
    /\ UNCHANGED deployVars

generate_helm_deployment ==
    /\ gpc = "deployment"
    /\ Emit(DEPLOYMENT, DeploymentText, <<>>, "service")
    /\ UNCHANGED <<profileFile, profile, fs0, dirs0, runs, lastExit>>
    /\ UNCHANGED deployVars

generate_helm_service ==
    /\ gpc = "service"
    /\ Emit(SERVICE, ServiceText, <<>>, "networkpolicy")
    /\ UNCHANGED <<profileFile, profile, fs0, dirs0, runs, lastExit>>
    /\ UNCHANGED deployVars

generate_network_policies ==
    /\ gpc = "networkpolicy"
    /\ \/ /\ ~ NetworkRaises(profile)
          /\ Emit(NETWORKPOLICY, NetworkPolicyText(profile), <<>>, "done")
       \/ /\ NetworkRaises(profile)
          /\ Abort("done")
    /\ UNCHANGED <<profileFile, profile, fs0, dirs0, runs, lastExit>>
    /\ UNCHANGED deployVars

GenSteps ==
    \/ load_profile
    \/ generate_dockerfile
    \/ generate_helm_chart
    \/ generate_helm_values
    \/ generate_helm_namespace
    \/ generate_helm_deployment
    \/ generate_helm_service
    \/ generate_network_policies

----------------------------------------------------------------------------
(* The states a run starts from *)

EmptyFs == [a \in Artifacts |-> NoFile]
StaleFs == [a \in Artifacts |-> File(<<"stale">>)]

NoInfo == [image_full |-> <<>>, app_name |-> <<>>, namespace |-> <<>>]

PackageNames == <<"curl", "iputils-ping", "dnsutils", "netcat-openbsd">>

GenProfiles ==
    { MkProfile(KeyPaths, id[1], pv, id[2], <<"22.04">>, <<"curl">>,
                Network(NetKeys, SampleRules, TRUE, FALSE)) :
        id \in {<<<<"worker">>, <<"ubuntu">>>>, <<<<"web">>, <<"debian">>>>},
        pv \in {<<"1">>, <<"22.04">>} }
    \cup { [BaseProfile EXCEPT !.packages = SubSeq(PackageNames, 1, k)] :
             k \in 0..Min(MaxPkgs, Len(PackageNames)) }
    \cup KeyProfiles \cup RaisingProfiles

FsInit ==
    \/ fs = EmptyFs /\ dirs = {}
    \/ fs = StaleFs /\ dirs = Range(ChartDirs)

ProfileInit(profiles) ==
    \/ profileFile = "ok" /\ profile \in profiles
    \/ profileFile \in {"missing", "malformed"} /\ profile = BaseProfile

Idle ==
    /\ out = <<>> /\ fs0 = fs /\ dirs0 = dirs /\ runs = 0 /\ lastExit = "idle"
    /\ iofaults = 0
    /\ username = <<>> /\ answer = <<>> /\ info = NoInfo /\ steps = <<>>
    /\ failed = ""

Init ==
    /\ ProfileInit(GenProfiles)
    /\ FsInit
    /\ gpc = "idle"
    /\ dpc = "idle"
    /\ Idle

Next == main \/ GenSteps

\* generate.py run from the command line, up to MaxRuns times
Spec == Init /\ [][Next]_vars

\* the six artifacts that precede networkpolicy.yaml, as a run wrote them
BeforeNetworkPolicy(p, old) ==
    [a \in Artifacts |->
        CASE a = DOCKERFILE -> File(DockerfileText(p))
          [] a = CHART -> File(ChartText(p))
          [] a = VALUES -> File(ValuesText(p))
          [] a = NAMESPACE -> File(NamespaceText(p))
          [] a = DEPLOYMENT -> File(DeploymentText)
          [] a = SERVICE -> File(ServiceText)
          [] OTHER -> old]

NetInit ==
    /\ profileFile = "ok"
    /\ profile \in NetProfiles
    /\ \E old \in {NoFile, File(<<"stale">>)} : fs = BeforeNetworkPolicy(profile, old)
    /\ dirs = Range(ChartDirs)
    /\ gpc = "networkpolicy"
    /\ dpc = "idle"
    /\ out = SubSeq(WriteOrder, 1, 6)
    /\ fs0 \in {EmptyFs, StaleFs} /\ fs0[NETWORKPOLICY] = fs[NETWORKPOLICY]
    /\ dirs0 = IF fs0 = EmptyFs THEN {} ELSE Range(ChartDirs)
    /\ runs = 1 /\ lastExit = "idle" /\ iofaults = 0
    /\ username = <<>> /\ answer = <<>> /\ info = NoInfo /\ steps = <<>>
    /\ failed = ""

NetNext == generate_network_policies

\* generate_network_policies applied to every network section of NetProfiles
NetSpec == NetInit /\ [][NetNext]_vars

----------------------------------------------------------------------------
(* deploy.py *)

\* the order of the steps of deploy.py main
StepOrder == <<"prerequisites", "username", "generate", "patch", "confirm",
               "minikube", "build", "push", "helm", "verify">>

RECURSIVE LStrip(_)
LStrip(s) == IF s # <<>> /\ Head(s) = " " THEN LStrip(Tail(s)) ELSE s

RECURSIVE RStrip(_)
RStrip(s) ==
    IF s # <<>> /\ s[Len(s)] = " " THEN RStrip(SubSeq(s, 1, Len(s) - 1)) ELSE s

\* str.strip(): s is a sequence of characters (or of words and blanks)
Strip(s) == RStrip(LStrip(s))

\* str.lower()
Lower(s) ==
    [i \in 1..Len(s) |-> CASE s[i] = "Y" -> "y" [] s[i] = "N" -> "n" [] OTHER -> s[i]]

RECURSIVE Replace(_, _, _)
\* str.replace(old, new), old being one token
Replace(s, old, new) ==
    IF s = <<>> THEN <<>>
    ELSE (IF Head(s) = old THEN new ELSE <<Head(s)>>) \o Replace(Tail(s), old, new)

\* a slip: the result of str.replace dropped
patched_content_unassigned(content, user) == content

\* content = content.replace("YOUR_DOCKERHUB_USERNAME", username)
patched_content(content, user) == Replace(content, PLACEHOLDER, user)

\* a slip: the failure of a checked command ignored
run_command_unchecked(ok, check, next) == next

\* run_command(command, check): with check, a failing command ends the
\* script through print_error; without, the caller goes on
run_command(ok, check, next) == IF ok \/ ~check THEN next ELSE "exit1"

\* print_error: sys.exit(1)
print_error == "exit1"

Tools == {"Docker", "kubectl", "Helm", "Minikube", "Python", "Docker daemon"}

UsernameInputs == {<<>>, <<" ">>, <<"alice">>, <<" ", "bob", " ">>, <<PLACEHOLDER>>}

AnswerChars == {" ", "y", "Y", "n"}

check_prerequisites ==
    /\ dpc = "prereq"
    /\ steps' = Append(steps, "prerequisites")
    /\ \E missing \in SUBSET Tools :
          /\ dpc' = IF missing = {} THEN "username" ELSE print_error
          /\ failed' = IF missing = {} THEN "" ELSE "prerequisites"
    /\ UNCHANGED <<username, answer, info>>
    /\ UNCHANGED genVars

get_docker_username ==
    /\ dpc = "username"
    /\ steps' = Append(steps, "username")
    /\ \E raw \in UsernameInputs :
          /\ username' = Strip(raw)
          /\ dpc' = IF Strip(raw) = <<>> THEN print_error ELSE "generate"
          /\ failed' = IF Strip(raw) = <<>> THEN "username" ELSE ""
    /\ UNCHANGED <<answer, info>>
    /\ UNCHANGED genVars

\* generate_files up to the start of "python generate.py profile.yaml"
generate_files ==
    /\ dpc = "generate"
    /\ steps' = Append(steps, "generate")
    /\ \E generate_py \in BOOLEAN :
          IF profileFile = "missing" \/ ~generate_py
          THEN /\ dpc' = print_error
               /\ failed' = "generate"
               /\ UNCHANGED <<gpc, runs, lastExit, fs0, dirs0, out>>
          ELSE /\ dpc' = "gen_wait"
               /\ failed' = ""
               /\ gpc' = "load"
               /\ runs' = runs + 1
               /\ lastExit' = gpc
               /\ fs0' = fs
               /\ dirs0' = dirs
               /\ out' = <<>>
    /\ UNCHANGED <<profileFile, profile, fs, dirs, iofaults>>
    /\ UNCHANGED <<username, answer, info>>

\* generate_files once the generator has exited
generate_files_return ==
    /\ dpc = "gen_wait"
    /\ gpc \in {"done", "aborted"}
    /\ dpc' = run_command(gpc = "done", TRUE, "patch")
    /\ failed' = IF gpc = "done" THEN "" ELSE "generate"
    /\ UNCHANGED <<username, answer, info, steps>>
    /\ UNCHANGED genVars

\* how the three accesses of update_values_yaml to values.yaml can end:
\* the read fails, the open for writing fails, the write fails after n
\* bytes, the read for parsing fails, or all succeed
PatchOutcomes(content) ==
    {OkIO, IO("read_error", 0), IO("open_error", 0), IO("reread_error", 0)}
    \cup {IO("write_error", n) : n \in 0..(Size(content) - 1)}

\* values.yaml once update_values_yaml has returned or raised
PatchFile(f, content, io) ==
    CASE io.kind \in {"ok", "reread_error"} -> WriteFile(f, VALUES, content, OkIO)
      [] io.kind = "write_error" -> WriteFile(f, VALUES, content, io)
      [] OTHER -> f

\* an exception of update_values_yaml reaches "except Exception" of
\* __main__, which ends the script through print_error
update_values_yaml ==
    /\ dpc = "patch"
    /\ steps' = Append(steps, "patch")
    /\ IF ~ fs[VALUES].exists
       THEN /\ dpc' = print_error
            /\ failed' = "patch"
            /\ UNCHANGED <<fs, info, iofaults>>
       ELSE LET content == patched_content(fs[VALUES].data, username)
                values == ReadValues(content)
            IN \E io \in PatchOutcomes(content) :
                /\ io.kind # "ok" => iofaults < MaxIOFaults
                /\ iofaults' = IF io.kind = "ok" THEN iofaults ELSE iofaults + 1
                /\ fs' = PatchFile(fs, content, io)
                /\ info' = IF io.kind = "ok"
                           THEN [image_full |-> values.repository \o <<":">> \o values.tag,
                                 app_name |-> values.app_name,
                                 namespace |-> values.namespace]
                           ELSE info
                /\ dpc' = IF io.kind = "ok" THEN "confirm" ELSE print_error
                /\ failed' = IF io.kind = "ok" THEN "" ELSE "patch"
    /\ UNCHANGED <<username, answer>>
    /\ UNCHANGED <<profileFile, profile, dirs, gpc, out, fs0, dirs0, runs,
                   lastExit>>

\* confirm = input(...).strip().lower(); if confirm and confirm != 'y': exit
confirm ==
    /\ dpc = "confirm"
    /\ steps' = Append(steps, "confirm")
    /\ \E raw \in SeqUpTo(AnswerChars, MaxAnswerLen) :
          /\ answer' = raw
          /\ dpc' = IF Lower(Strip(raw)) # <<>> /\ Lower(Strip(raw)) # <<"y">>
                    THEN "exit0" ELSE "minikube"
    /\ UNCHANGED <<username, info, failed>>
    /\ UNCHANGED genVars

start_minikube ==
    /\ dpc = "minikube"
    /\ steps' = Append(steps, "minikube")
    /\ \E running \in BOOLEAN, started \in BOOLEAN, nodes \in BOOLEAN :
          /\ dpc' = IF running THEN "build"
                    ELSE run_command(started, TRUE, run_command(nodes, FALSE, "build"))
          /\ failed' = IF ~running /\ ~started THEN "minikube" ELSE ""
    /\ UNCHANGED <<username, answer, info>>
    /\ UNCHANGED genVars

build_image ==
    /\ dpc = "build"
    /\ steps' = Append(steps, "build")
    /\ \E built \in BOOLEAN :
          /\ dpc' = run_command(built, TRUE, "push")
          /\ failed' = IF built THEN "" ELSE "build"
    /\ UNCHANGED <<username, answer, info>>
    /\ UNCHANGED genVars

push_image ==
    /\ dpc = "push"
    /\ steps' = Append(steps, "push")
    /\ \E logged_in \in BOOLEAN, pushed \in BOOLEAN :
          /\ dpc' = run_command(logged_in, FALSE, run_command(pushed, TRUE, "helm"))
          /\ failed' = IF pushed THEN "" ELSE "push"
    /\ UNCHANGED <<username, answer, info>>
    /\ UNCHANGED genVars

deploy_helm ==
    /\ dpc = "helm"
    /\ steps' = Append(steps, "helm")
    /\ \E uninstalled \in BOOLEAN, installed \in BOOLEAN, ready \in BOOLEAN :
          /\ dpc' = run_command(uninstalled, FALSE,
                        run_command(installed, TRUE,
                            run_command(ready, FALSE, "verify")))
          /\ failed' = IF installed THEN "" ELSE "helm"
    /\ UNCHANGED <<username, answer, info>>
    /\ UNCHANGED genVars

verify_deployment ==
    /\ dpc = "verify"
    /\ steps' = Append(steps, "verify")
    /\ \E listed \in BOOLEAN :
          dpc' = run_command(listed, FALSE, "complete")
    /\ UNCHANGED <<username, answer, info, failed>>
    /\ UNCHANGED genVars

DeployProfiles ==
    { [BaseProfile EXCEPT !.name = n] :
        n \in {<<"worker">>, <<"web">>, <<PLACEHOLDER>>, <<"my-", PLACEHOLDER>>} }
    \cup { [BaseProfile EXCEPT !.paths = KeyPaths \ {"profile.name"}],
           [BaseProfile EXCEPT !.paths = KeyPaths \ {"network"}] }

DeployInit ==
    /\ ProfileInit(DeployProfiles)
    /\ FsInit
    /\ gpc = "idle"
    /\ dpc = "prereq"
    /\ Idle

DeployNext ==
    \/ check_prerequisites
    \/ get_docker_username
    \/ generate_files
    \/ generate_files_return
    \/ update_values_yaml
    \/ confirm
    \/ start_minikube
    \/ build_image
    \/ push_image
    \/ deploy_helm
    \/ verify_deployment
    \/ GenSteps

\* deploy.py main, with generate.py run as its subprocess
DeploySpec == DeployInit /\ [][DeployNext]_vars

----------------------------------------------------------------------------
(* Properties of generate_network_policies, checked under NetSpec *)

InputRules == IF "rules" \in profile.network.keys THEN profile.network.rules ELSE <<>>

\* the positions of the input rules of one direction
Positions(dir) == {i \in 1..Len(InputRules) : InputRules[i].direction = dir}

\* the k-th smallest element of S
Nth(S, k) == CHOOSE i \in S : Cardinality({j \in S : j < i}) = k - 1

\* the peer namespace a rule names, empty when it names none
NamedPeer(rule, key) ==
    IF key \in rule.keys /\ rule[key].shape = "map" /\ rule[key].has_ns
    THEN rule[key].namespace ELSE <<>>

Carries(entry, rule, key) ==
    /\ entry.namespace = NamedPeer(rule, key)
    /\ entry.protocol = rule.protocol
    /\ entry.port = ToString(rule.port)

Written == ReadPolicies(fs[NETWORKPOLICY].data)

\* C1: the allow policy holds one ingress entry per ingress rule and one
\* egress entry per egress rule, the k-th entry of a direction carrying the
\* peer namespace, protocol and port of the k-th input rule of that direction
C1_EntriesFollowRules ==
    gpc = "done" =>
        /\ Len(Written.ingress) = Cardinality(Positions("ingress"))
        /\ Len(Written.egress) = Cardinality(Positions("egress"))
        /\ \A k \in 1..Len(Written.ingress) :
              Carries(Written.ingress[k], InputRules[Nth(Positions("ingress"), k)], "from")
        /\ \A k \in 1..Len(Written.egress) :
              Carries(Written.egress[k], InputRules[Nth(Positions("egress"), k)], "to")

\* two different ingress rules around an egress rule, written
C1_Witness ==
    /\ gpc = "done"
    /\ Len(InputRules) = 3
    /\ InputRules[1].direction = "ingress"
    /\ InputRules[2].direction = "egress"
    /\ InputRules[3].direction = "ingress"
    /\ InputRules[1] # InputRules[3]
    /\ Len(Written.ingress) = 2

FlagTrue(flag) == flag \in profile.network.keys /\ profile.network[flag] = TRUE

\* C2: both policies declare the same policyTypes list, which holds Ingress
\* exactly when default_deny_ingress is true and Egress exactly when
\* default_deny_egress is true
C2_PolicyTypesFollowFlags ==
    gpc = "done" =>
        /\ Written.deny_types = Written.allow_types
        /\ "Ingress" \in Range(Written.deny_types) <=> FlagTrue("default_deny_ingress")
        /\ "Egress" \in Range(Written.deny_types) <=> FlagTrue("default_deny_egress")

C2_Witness ==
    /\ gpc = "done"
    /\ FlagTrue("default_deny_ingress")
    /\ ~ FlagTrue("default_deny_egress")
    /\ Written.allow_types = <<"Ingress">>

\* C3: the allow policy always has an ingress key and an egress key, a
\* direction without rules being the explicit empty list; no rules and both
\* deny flags give both policy types and two empty lists
C3_BothKeysAlways ==
    gpc = "done" =>
        /\ Written.has_ingress /\ Written.has_egress
        /\ Positions("ingress") = {} =>
              IngressEmpty \in Range(fs[NETWORKPOLICY].data) /\ Written.ingress = <<>>
        /\ Positions("egress") = {} =>
              EgressEmpty \in Range(fs[NETWORKPOLICY].data) /\ Written.egress = <<>>
        /\ (InputRules = <<>> /\ FlagTrue("default_deny_ingress")
                /\ FlagTrue("default_deny_egress")) =>
              /\ Written.deny_types = <<"Ingress", "Egress">>
              /\ Written.ingress = <<>> /\ Written.egress = <<>>

C3_Witness ==
    /\ gpc = "done"
    /\ InputRules = <<>>
    /\ FlagTrue("default_deny_ingress") /\ FlagTrue("default_deny_egress")
    /\ Written.has_ingress /\ Written.has_egress

\* the rule has its direction, protocol and port
Complete(rule) == {"direction", "protocol", "port"} \subseteq rule.keys

\* C4: a rule without its peer namespace, in any shape, never makes the
\* generation fail: the file is written and the rule's entry has an empty
\* namespace name
C4_MissingPeerNeverFails ==
    ( /\ gpc \in {"done", "aborted"}
      /\ iofaults = 0
      /\ "network" \in profile.paths
      /\ \A i \in 1..Len(InputRules) : Complete(InputRules[i]) )
    => /\ gpc = "done"
       /\ \A k \in 1..Len(Written.ingress) :
             NamedPeer(InputRules[Nth(Positions("ingress"), k)], "from") = <<>>
                => Written.ingress[k].namespace = <<>>
       /\ \A k \in 1..Len(Written.egress) :
             NamedPeer(InputRules[Nth(Positions("egress"), k)], "to") = <<>>
                => Written.egress[k].namespace = <<>>

----------------------------------------------------------------------------
(* Properties of a generator run, checked under Spec *)

\* what a complete run writes for profile p
Rendered(p) ==
    [BeforeNetworkPolicy(p, NoFile) EXCEPT ![NETWORKPOLICY] = File(NetworkPolicyText(p))]

\* C5: after a complete run every artifact is what the profile alone
\* determines, whatever the files held before, and a second complete run on
\* the same profile leaves every artifact as the first left it
C5_Regeneration ==
    /\ gpc = "done" => fs = Rendered(profile)
    /\ (gpc = "done" /\ lastExit = "done") => fs = fs0

C5_Witness ==
    /\ gpc = "done" /\ lastExit = "done" /\ runs = 2
    /\ fs[DOCKERFILE].data # <<>>

\* C7: the artifacts a run has written are a prefix of the write order and
\* keep what was written; a complete run wrote all seven; an aborted run
\* wrote fewer, and no artifact after the failing step differs from what it
\* was when the run started
C7_AllOrPrefix ==
    /\ IsPrefix(out, WriteOrder)
    /\ \A k \in 1..Len(out) : fs[WriteOrder[k]] = Rendered(profile)[WriteOrder[k]]
    /\ \A k \in (Len(out) + 2)..Len(WriteOrder) : fs[WriteOrder[k]] = fs0[WriteOrder[k]]
    /\ gpc = "done" => out = WriteOrder
    /\ gpc = "aborted" => Len(out) < Len(WriteOrder)

\* a write failed at namespace.yaml, after three artifacts
C7_Witness ==
    /\ gpc = "aborted"
    /\ iofaults = 1
    /\ out = SubSeq(WriteOrder, 1, 3)
    /\ fs[NAMESPACE] # fs0[NAMESPACE]

\* C8: the image tag of values.yaml is <distro>-<name>-v<profile version>
\* and Chart.yaml's version and appVersion are the profile version
C8_TagAndVersions ==
    VALUES \in Range(out) =>
        /\ ReadValues(fs[VALUES].data).tag =
              profile.distro \o <<"-">> \o profile.name \o <<"-v">> \o profile.prof_ver
        /\ ReadChart(fs[CHART].data).version = profile.prof_ver
        /\ ReadChart(fs[CHART].data).appVersion = profile.prof_ver

C8_Witness ==
    /\ gpc = "done"
    /\ VALUES \in Range(out)
    /\ profile.prof_ver # profile.os_version
    /\ ReadValues(fs[VALUES].data).tag = <<"debian", "-", "web", "-v", "1">>

\* C9: with the profile file missing or unparsable the run ends in
\* load_profile and the output tree is as it was: no directory, no artifact
\* and no "[OK]" line
C9_LoadFailureTouchesNothing ==
    (profileFile # "ok" /\ gpc # "idle") =>
        /\ gpc \in {"load", "aborted"}
        /\ fs = fs0 /\ dirs = dirs0 /\ out = <<>>

C9_Witness ==
    /\ gpc = "aborted"
    /\ profileFile = "malformed"
    /\ fs = EmptyFs /\ dirs = {}

----------------------------------------------------------------------------
(* Properties of the orchestrator, checked under DeploySpec *)

Last(s) == s[Len(s)]

\* update_values_yaml has patched values.yaml
Patched == "confirm" \in Range(steps) \/ dpc = "confirm"

PlaceholderFree ==
    PLACEHOLDER \notin
        (Range(profile.name) \cup Range(profile.distro) \cup Range(profile.prof_ver)
            \cup Range(username))

\* the renderer leaves the placeholder in the repository
RendererKeepsPlaceholder ==
    (dpc \in {"gen_wait", "patch"} /\ gpc = "done") =>
        ReadValues(fs[VALUES].data).repository = <<PLACEHOLDER, "/">> \o profile.name

\* the repository is <username>/<name>, no placeholder is left and every
\* other value is the renderer's
SubstitutedOnce ==
    LET v == ReadValues(fs[VALUES].data)
        w == ReadValues(ValuesText(profile))
    IN /\ v.repository = username \o <<"/">> \o profile.name
       /\ PLACEHOLDER \notin Range(fs[VALUES].data)
       /\ v.tag = w.tag
       /\ v.namespace = w.namespace
       /\ v.app_name = w.app_name
       /\ v.fixed = w.fixed

\* C6 as stated: for any profile name and any non-empty username
C6_AnyNameAnyUser ==
    /\ RendererKeepsPlaceholder
    /\ Patched => SubstitutedOnce

\* C6: the renderer never substitutes the placeholder; update_values_yaml
\* turns the repository into <username>/<name>, leaves no placeholder and
\* changes no other value, when neither the profile's name, distro and
\* version nor the username contain the placeholder
C6_SubstitutedWhenDistinct ==
    /\ RendererKeepsPlaceholder
    /\ (Patched /\ PlaceholderFree) => SubstitutedOnce

C6_Witness ==
    /\ Patched
    /\ PlaceholderFree
    /\ username = <<"bob">>
    /\ ReadValues(fs[VALUES].data).repository = <<"bob", "/", "worker">>

OrderKept == IsPrefix(steps, StepOrder)

\* a step that reported an error is the last step, and the script has exited
FailureEnds == failed # "" => (dpc = "exit1" /\ Last(steps) = failed)

\* values.yaml is patched only after a complete generator run
PatchAfterGeneration == "patch" \in Range(steps) => (gpc = "done" /\ out = WriteOrder)

Declines(a) == a # <<>> /\ a # <<"y">>

\* C10 as stated: any answer other than empty or 'y' ends the script
C10_AnyOtherAnswerEnds ==
    /\ OrderKept /\ FailureEnds /\ PatchAfterGeneration
    /\ Declines(answer) => (dpc = "exit0" /\ Last(steps) = "confirm")

\* C10: the steps run in the fixed order; a failed prerequisite, empty
\* username, failed generation or failed checked command ends the script
\* with no later step; an answer that, stripped and lower-cased, is neither
\* empty nor 'y' ends it at the confirmation; values.yaml is patched only
\* after generation succeeded
C10_StepsInOrder ==
    /\ OrderKept /\ FailureEnds /\ PatchAfterGeneration
    /\ Declines(Lower(Strip(answer))) => (dpc = "exit0" /\ Last(steps) = "confirm")

\* docker build failed after the confirmation: no push, no Helm install
C10_Witness ==
    /\ dpc = "exit1"
    /\ failed = "build"
    /\ steps = SubSeq(StepOrder, 1, 7)

====
